---------------------------- MODULE Spec2Model ----------------------------
(***************************************************************************)
(* Model of the OME-Zarr v0.4 multiscale metadata validation engine of     *)
(* ome-zarr-models-py: coordinate transformation records, the validators   *)
(* of transform sequences and axis lists, the construction of Dataset,     *)
(* Multiscale and MultiscaleGroup, and MultiscaleGroup.from_zarr.          *)
(*                                                                         *)
(* Conventions.                                                            *)
(*  - A string that the code takes apart (a dataset path, a key of a flat  *)
(*    hierarchy) is a sequence of one-character strings: "a/0" is          *)
(*    <<"a", "/", "0">>.                                                   *)
(*  - A JSON-like transformation record is [type, key, tag, vec, str]: its *)
(*    `type` entry and one payload entry named `key`, whose value is a     *)
(*    list of numbers (tag = "list", vec) or a string (tag = "str", str);  *)
(*    key = "none" is a record with no payload entry.                      *)
(*  - A constructed transformation is [cls, type, vec, str].               *)
(*  - The outcome of a constructor or validator is [ok, val, err, why]:    *)
(*    the value it returns, or the exception it raises.                    *)
(***************************************************************************)
EXTENDS Integers, Sequences, FiniteSets, TLC

VARIABLES
    op,                 \* pure call: the constructor / validator applied ("none" before)
    arg,                \* pure call: its input
    ret,                \* pure call: its outcome
    pc,                 \* from_zarr / direct construction: position in the code
    store,              \* the hierarchy below `node` (also the members given directly)
    attrs,              \* the attributes of `node`
    strict,             \* whether the pydantic_zarr build refuses empty member names
    refuses_trailing_slash, \* whether its from_flat refuses keys that end with "/"
    multi_meta,         \* from_zarr: the parsed MultiscaleGroupAttrs
    cur,                \* from_zarr: <<multiscale index, dataset index>> of the next lookup
    members_tree_flat,  \* from_zarr: the discovered arrays, by key
    opened,             \* from_zarr: the array paths given to zarr.open_array, in order
    result              \* the outcome of the construction

vars == <<op, arg, ret, pc, store, attrs, strict, refuses_trailing_slash, multi_meta, cur,
          members_tree_flat, opened, result>>

groupVars == <<pc, store, attrs, strict, refuses_trailing_slash, multi_meta, cur, members_tree_flat,
               opened, result>>

-----------------------------------------------------------------------------
(* Bounds of the model *)

\* longest transform sequence given to a validator
MaxTransforms == 3
\* longest vector of a vector-parametrized transform
MaxDim == 3
\* longest axis list given to Multiscale
MaxAxes == 6
\* most datasets in a multiscale
MaxDatasets == 2

-----------------------------------------------------------------------------
(* Outcomes *)

Ok(v) == [ok |-> TRUE, val |-> v, err |-> "none", why |-> "none"]
Raise(e, w) == [ok |-> FALSE, val |-> <<>>, err |-> e, why |-> w]

\* the outcome r, or, when r returned a value, the outcome of F on that value
Then(r, F(_)) == IF r.ok THEN F(r.val) ELSE r

\* all sequences over S of length lo..hi
SeqsOf(S, lo, hi) == UNION {[1..n -> S] : n \in lo..hi}

-----------------------------------------------------------------------------
(* coordinate_transformations.py *)

Raw(type, key, tag, vec, str) ==
    [type |-> type, key |-> key, tag |-> tag, vec |-> vec, str |-> str]
Transform(cls, type, vec, str) ==
    [cls |-> cls, type |-> type, vec |-> vec, str |-> str]

\* class VectorScale: type: Literal["scale"]; scale: list[float]
IsVectorScale(r) == r.type = "scale" /\ r.key = "scale" /\ r.tag = "list"
VectorScale(r) == Transform("VectorScale", "scale", r.vec, "")

\* class PathScale: type: Literal["scale"]; path: str
IsPathScale(r) == r.type = "scale" /\ r.key = "path" /\ r.tag = "str"
PathScale(r) == Transform("PathScale", "scale", <<>>, r.str)

\* class VectorTranslation: type: Literal["translation"]; translation: list[float]
IsVectorTranslation(r) ==
    r.type = "translation" /\ r.key = "translation" /\ r.tag = "list"
VectorTranslation(r) == Transform("VectorTranslation", "translation", r.vec, "")

\* class PathTranslation: type: Literal["translation"]; translation: str
IsPathTranslation(r) ==
    r.type = "translation" /\ r.key = "translation" /\ r.tag = "str"
PathTranslation(r) == Transform("PathTranslation", "translation", <<>>, r.str)

\* ScaleTransform = VectorScale | PathScale
ScaleTransform(r) ==
    IF IsVectorScale(r) THEN Ok(VectorScale(r))
    ELSE IF IsPathScale(r) THEN Ok(PathScale(r))
    ELSE Raise("ValidationError", "wrong-discriminator")

\* TranslationTransform = VectorTranslation | PathTranslation
TranslationTransform(r) ==
    IF IsVectorTranslation(r) THEN Ok(VectorTranslation(r))
    ELSE IF IsPathTranslation(r) THEN Ok(PathTranslation(r))
    ELSE Raise("ValidationError", "wrong-discriminator")

\* VectorTransform = VectorScale | VectorTranslation
IsVectorTransform(t) == t.cls \in {"VectorScale", "VectorTranslation"}

\* VectorScale.ndim / VectorTranslation.ndim, through _ndim
Ndim(t) == Len(t.vec)

-----------------------------------------------------------------------------
(* multiscales.py: the validators of a transform sequence *)

\* the dimensionalities of the vector-parametrized members of a sequence
VectorNdims(transforms) ==
    {Ndim(transforms[i]) : i \in {k \in DOMAIN transforms : IsVectorTransform(transforms[k])}}

\* _ensure_transform_dimensionality, with the vector filter left out
NoFilterTransformDimensionality(transforms) ==
    IF Cardinality({Len(transforms[i].vec) : i \in DOMAIN transforms}) > 1
    THEN Raise("ValueError", "dimensionality-mismatch")
    ELSE Ok(transforms)

_ensure_transform_dimensionality(transforms) ==
    IF Cardinality(VectorNdims(transforms)) > 1
    THEN Raise("ValueError", "dimensionality-mismatch")
    ELSE Ok(transforms)

\* _ensure_scale_translation, with the test of the second element left out
NoSecondScaleTranslation(transforms) ==
    IF Len(transforms) \notin {1, 2} THEN Raise("ValueError", "wrong-arity")
    ELSE IF transforms[1].type # "scale" THEN Raise("ValueError", "wrong-order")
    ELSE Ok(transforms)

_ensure_scale_translation(transforms) ==
    IF Len(transforms) \notin {1, 2} THEN Raise("ValueError", "wrong-arity")
    ELSE IF transforms[1].type # "scale" THEN Raise("ValueError", "wrong-order")
    ELSE IF Len(transforms) = 2 /\ transforms[2].type # "translation"
         THEN Raise("ValueError", "wrong-order")
    ELSE Ok(transforms)

\* an exception raised inside a pydantic validator surfaces as a ValidationError
Wrapped(r) == IF r.ok THEN r ELSE [r EXCEPT !.err = "ValidationError"]

\* The field type
\*   tuple[ScaleTransform] | tuple[ScaleTransform, TranslationTransform]
\* applied to a JSON-like list of transformation records.
TransformSequence(raw) ==
    IF Len(raw) = 1
    THEN Then(ScaleTransform(raw[1]), LAMBDA sc : Ok(<<sc>>))
    ELSE IF Len(raw) = 2
    THEN Then(ScaleTransform(raw[1]), LAMBDA sc :
         Then(TranslationTransform(raw[2]), LAMBDA tr : Ok(<<sc, tr>>)))
    ELSE Raise("ValidationError", "wrong-arity")

\* Dataset.coordinateTransformations: the field type, then the two AfterValidators
DatasetTransforms(raw) ==
    Then(TransformSequence(raw), LAMBDA parsed :
    Then(Wrapped(_ensure_scale_translation(parsed)), LAMBDA ordered :
         Wrapped(_ensure_transform_dimensionality(ordered))))

\* class Dataset, from [path, coordinateTransformations]
Dataset(raw) ==
    Then(DatasetTransforms(raw.coordinateTransformations), LAMBDA ct :
         Ok([path |-> raw.path, coordinateTransformations |-> ct]))

-----------------------------------------------------------------------------
(* multiscales.py: the validators of an axis list; an axis is [name, type] *)

\* VALID_NDIM = (2, 3, 4, 5)
VALID_NDIM == {2, 3, 4, 5}

\* AxisType = Literal["space", "time", "channel"]
AxisType == {"space", "time", "channel"}

_ensure_axis_length(axes) ==
    IF Len(axes) \notin VALID_NDIM
    THEN Raise("ValueError", "axis-count-out-of-range")
    ELSE Ok(axes)

\* duplicates(a.name for a in axes): the names that occur more than once
NameDupes(axes) ==
    {axes[i].name : i \in {k \in DOMAIN axes :
                             \E l \in DOMAIN axes : l # k /\ axes[l].name = axes[k].name}}

_ensure_axis_names(axes) ==
    IF Cardinality(NameDupes(axes)) > 0
    THEN Raise("ValueError", "axis-name-duplicate")
    ELSE Ok(axes)

\* Counter(axis_types)[t]
TypeCensus(axes, t) == Cardinality({i \in DOMAIN axes : axes[i].type = t})

\* axis_types[-num_spaces:], as positions
LastPositions(axes, n) ==
    {i \in DOMAIN axes : i > Len(axes) - n}

\* set(axis_types) - set(get_args(AxisType))
CustomAxes(axes) == {axes[i].type : i \in DOMAIN axes} \ AxisType

\* _ensure_axis_types, with the test that the space axes come last left out
NoOrderAxisTypes(axes) ==
    LET num_spaces == TypeCensus(axes, "space") IN
    IF num_spaces \notin {2, 3} THEN Raise("ValueError", "space-count")
    ELSE IF TypeCensus(axes, "time") > 1 THEN Raise("ValueError", "time-count")
    ELSE IF TypeCensus(axes, "channel") > 1 THEN Raise("ValueError", "channel-count")
    ELSE IF Cardinality(CustomAxes(axes)) > 1 THEN Raise("ValueError", "custom-count")
    ELSE Ok(axes)

_ensure_axis_types(axes) ==
    LET num_spaces == TypeCensus(axes, "space") IN
    IF num_spaces \notin {2, 3} THEN Raise("ValueError", "space-count")
    ELSE IF \E i \in LastPositions(axes, num_spaces) : axes[i].type # "space"
         THEN Raise("ValueError", "space-order")
    ELSE IF TypeCensus(axes, "time") > 1 THEN Raise("ValueError", "time-count")
    ELSE IF TypeCensus(axes, "channel") > 1 THEN Raise("ValueError", "channel-count")
    ELSE IF Cardinality(CustomAxes(axes)) > 1 THEN Raise("ValueError", "custom-count")
    ELSE Ok(axes)

\* Multiscale.axes: the three AfterValidators, in order
MultiscaleAxes(axes) ==
    Then(Wrapped(_ensure_axis_length(axes)), LAMBDA a :
    Then(Wrapped(_ensure_axis_names(a)), LAMBDA b :
         Wrapped(_ensure_axis_types(b))))

-----------------------------------------------------------------------------
(* multiscales.py: Multiscale and MultiscaleGroupAttrs *)
(* A JSON-like multiscale is [axes, datasets, coordinateTransformations],  *)
(* the last one [some, seq]: absent / None, or a list of records.          *)

None == [some |-> FALSE, seq |-> <<>>]
Some(s) == [some |-> TRUE, seq |-> s]

\* the first failure among the outcomes rs, a sequence; Ok(<<values>>) without one
AllOk(rs) ==
    IF \E i \in DOMAIN rs : ~rs[i].ok
    THEN rs[CHOOSE i \in DOMAIN rs : ~rs[i].ok /\ \A k \in 1..(i - 1) : rs[k].ok]
    ELSE Ok([i \in DOMAIN rs |-> rs[i].val])

\* Multiscale.datasets: tuple[Dataset, ...] = Field(..., min_length=1)
MultiscaleDatasets(raw) ==
    Then(AllOk([i \in DOMAIN raw |-> Dataset(raw[i])]), LAMBDA datasets :
         IF Len(datasets) < 1 THEN Raise("ValidationError", "too-short")
         ELSE Ok(datasets))

_ensure_top_transforms_dimensionality(data) ==
    LET ctx == data.coordinateTransformations IN
    IF ctx.some
    THEN Then(_ensure_transform_dimensionality(ctx.seq), LAMBDA same : Ok(data))
    ELSE Ok(data)

\* _ensure_axes_top_transforms, taken for _ensure_top_transforms_dimensionality:
\* the top-level transforms are never compared with the axes
NoAxesTopTransforms(data) == _ensure_top_transforms_dimensionality(data)

_ensure_axes_top_transforms(data) ==
    LET self_ndim == Len(data.axes)
        ctx == data.coordinateTransformations IN
    IF ctx.some /\ \E i \in DOMAIN ctx.seq :
                      IsVectorTransform(ctx.seq[i]) /\ self_ndim # Ndim(ctx.seq[i])
    THEN Raise("ValueError", "axis-transform-mismatch")
    ELSE Ok(data)

_ensure_axes_dataset_transforms(data) ==
    LET self_ndim == Len(data.axes) IN
    IF \E ds_idx \in DOMAIN data.datasets :
          LET ct == data.datasets[ds_idx].coordinateTransformations IN
          \E i \in DOMAIN ct : IsVectorTransform(ct[i]) /\ self_ndim # Ndim(ct[i])
    THEN Raise("ValueError", "axis-transform-mismatch")
    ELSE Ok(data)

\* Multiscale.coordinateTransformations, typed as a tuple of any length of scale
\* or translation transforms
UntypedMultiscaleTransforms(raw) ==
    IF ~raw.some THEN Ok(None)
    ELSE Then(AllOk([i \in DOMAIN raw.seq |->
                       IF raw.seq[i].type = "scale"
                       THEN ScaleTransform(raw.seq[i])
                       ELSE TranslationTransform(raw.seq[i])]),
              LAMBDA each : Ok(Some(each)))

\* Multiscale.coordinateTransformations:
\*   tuple[ScaleTransform] | tuple[ScaleTransform, TranslationTransform] | None = None
MultiscaleTransforms(raw) ==
    IF ~raw.some THEN Ok(None)
    ELSE Then(TransformSequence(raw.seq), LAMBDA parsed : Ok(Some(parsed)))

\* class Multiscale: the fields, then the three model validators, in order
Multiscale(raw) ==
    Then(AllOk(<<MultiscaleDatasets(raw.datasets),
                 MultiscaleAxes(raw.axes),
                 MultiscaleTransforms(raw.coordinateTransformations)>>), LAMBDA fields :
    Then(Wrapped(_ensure_top_transforms_dimensionality(
            [datasets |-> fields[1], axes |-> fields[2],
             coordinateTransformations |-> fields[3]])), LAMBDA a :
    Then(Wrapped(_ensure_axes_top_transforms(a)), LAMBDA b :
         Wrapped(_ensure_axes_dataset_transforms(b)))))

\* class MultiscaleGroupAttrs:
\*   multiscales: tuple[Multiscale, ...] = Field(..., min_length=1)
MultiscaleGroupAttrs(multiscales) ==
    Then(AllOk([i \in DOMAIN multiscales |-> Multiscale(multiscales[i])]), LAMBDA each :
         IF Len(each) < 1 THEN Raise("ValidationError", "too-short")
         ELSE Ok([multiscales |-> each]))

-----------------------------------------------------------------------------
(* multiscales.py: MultiscaleGroup *)
(* A node of a hierarchy is [kind, shape, members]: an array with its shape, *)
(* or a group with its members, a function from names to nodes.  A flat     *)
(* hierarchy is a function from keys to [kind, shape].                      *)

Slash == "/"

ArrayNode(shape) == [kind |-> "array", shape |-> shape, members |-> <<>>]
GroupNode(members) == [kind |-> "group", shape |-> <<>>, members |-> members]
FlatNode(node) == [kind |-> node.kind, shape |-> node.shape]

RaiseAt(e, w, path) == [ok |-> FALSE, val |-> path, err |-> e, why |-> w]

\* str.lstrip("/")
RECURSIVE Lstrip(_)
Lstrip(p) == IF p # <<>> /\ Head(p) = Slash THEN Lstrip(Tail(p)) ELSE p

\* str.split("/")
RECURSIVE Split(_)
Split(p) ==
    IF \E i \in DOMAIN p : p[i] = Slash
    THEN LET i == CHOOSE k \in DOMAIN p : p[k] = Slash /\ \A l \in 1..(k - 1) : p[l] # Slash
         IN  <<SubSeq(p, 1, i - 1)>> \o Split(SubSeq(p, i + 1, Len(p)))
    ELSE <<p>>

\* the path zarr looks up: its segments, without the empty ones
NormalizedSegments(p) == SelectSeq(Split(p), LAMBDA seg : seg # <<>>)

\* what lies at the segments below a group with the given members:
\* an array node, a group node, or nothing
Nothing == [kind |-> "nothing", shape |-> <<>>, members |-> <<>>]
RECURSIVE Resolve(_, _)
Resolve(members, segs) ==
    IF segs = <<>> THEN GroupNode(members)
    ELSE IF Head(segs) \notin DOMAIN members THEN Nothing
    ELSE LET node == members[Head(segs)] IN
         IF node.kind = "array"
         THEN IF Len(segs) = 1 THEN node ELSE Nothing
         ELSE Resolve(node.members, Tail(segs))

\* zarr.open_array(store=node.store, path=array_path, mode="r"), then
\* ArraySpec.from_zarr: the array's spec, or the exception of zarr
OpenArray(members, array_path) ==
    LET node == Resolve(members, NormalizedSegments(array_path)) IN
    IF node.kind = "array" THEN Ok(FlatNode(node))
    ELSE IF node.kind = "group" THEN Raise("ContainsGroupError", "group")
    ELSE Raise("ArrayNotFoundError", "nothing")

\* GroupSpec.to_flat(): the nodes below root_path, as <<key, node>> pairs
RECURSIVE FlatPairs(_, _)
FlatPairs(root_path, members) ==
    UNION {LET key == root_path \o <<Slash>> \o n IN
           {<<key, FlatNode(members[n])>>}
               \cup (IF members[n].kind = "group"
                     THEN FlatPairs(key, members[n].members) ELSE {})
           : n \in DOMAIN members}

ToFlat(members) ==
    LET pairs == FlatPairs(<<>>, members) \cup {<<<<>>, FlatNode(GroupNode(<<>>))>>}
    IN  [k \in {pr[1] : pr \in pairs} |-> (CHOOSE pr \in pairs : pr[1] = k)[2]]

\* the keys of the groups above `key` in a flat hierarchy, the root left out
ParentKeys(key) == {SubSeq(key, 1, i - 1) : i \in {k \in DOMAIN key : k > 1 /\ key[k] = Slash}}

\* GroupSpec.from_flat(members_tree_flat), read back with to_flat(): the arrays
\* at their keys and a group at every key above one; an array hides a group of
\* its name, and all that this group holds.  A build of pydantic_zarr may
\* refuse a key that ends with "/", with a ValueError before anything is
\* built, and may check member names and refuse an empty one.
FromFlat(flat, strict_names, refuses_trailing) ==
    IF refuses_trailing /\ \E k \in DOMAIN flat : k # <<>> /\ k[Len(k)] = Slash
    THEN Raise("ValueError", "invalid-key")
    ELSE IF strict_names
            /\ \E k \in DOMAIN flat : \E i \in 2..Len(Split(k)) : Split(k)[i] = <<>>
    THEN Raise("ValidationError", "invalid-member-name")
    ELSE LET seen == {k \in DOMAIN flat : ParentKeys(k) \cap DOMAIN flat = {}}
             groups == (UNION {ParentKeys(k) : k \in seen}) \ DOMAIN flat
         IN  Ok([k \in seen \cup groups \cup {<<>>} |->
                    IF k \in seen THEN flat[k] ELSE FlatNode(GroupNode(<<>>))])

\* one dataset of _check_arrays_compatible
CheckArray(flat_self, multiscale, dataset) ==
    LET key == <<Slash>> \o Lstrip(dataset.path) IN
    IF key \notin DOMAIN flat_self
    THEN RaiseAt("ValueError", "missing-array", dataset.path)
    ELSE IF flat_self[key].kind = "group"
    THEN RaiseAt("ValueError", "wrong-node-kind", dataset.path)
    ELSE IF Len(flat_self[key].shape) # Len(multiscale.axes)
    THEN RaiseAt("ValueError", "dimensionality-mismatch", dataset.path)
    ELSE Ok(dataset)

\* the <<multiscale, dataset>> positions of the metadata, in the order of the loops
DatasetPositions(multiscales) ==
    UNION {{<<i, j>> : j \in DOMAIN multiscales[i].datasets} : i \in DOMAIN multiscales}
Before(a, b) == a[1] < b[1] \/ (a[1] = b[1] /\ a[2] < b[2])

\* _check_arrays_compatible that never compares the number of axes
NoRankCheckArraysCompatible(multimeta, flat_self) ==
    LET check(pos) == CheckArray(flat_self, multimeta[pos[1]], multimeta[pos[1]].datasets[pos[2]])
        bad == {pos \in DatasetPositions(multimeta) :
                    ~check(pos).ok /\ check(pos).why # "dimensionality-mismatch"}
    IN  IF bad = {} THEN Ok(multimeta)
        ELSE check(CHOOSE pos \in bad : \A other \in bad : other = pos \/ Before(pos, other))

\* _check_arrays_compatible, of data.attributes.multiscales and data.to_flat()
_check_arrays_compatible(multimeta, flat_self) ==
    LET check(pos) == CheckArray(flat_self, multimeta[pos[1]], multimeta[pos[1]].datasets[pos[2]])
        bad == {pos \in DatasetPositions(multimeta) : ~check(pos).ok}
    IN  IF bad = {} THEN Ok(multimeta)
        ELSE check(CHOOSE pos \in bad : \A other \in bad : other = pos \/ Before(pos, other))

\* class MultiscaleGroup: the attributes [has, multiscales] parsed as
\* MultiscaleGroupAttrs, then _check_arrays_compatible on the flat members
MultiscaleGroup(attributes, flat_members) ==
    IF ~attributes.has THEN Raise("ValidationError", "missing-field")
    ELSE Then(MultiscaleGroupAttrs(attributes.multiscales), LAMBDA parsed :
         Then(Wrapped(_check_arrays_compatible(parsed.multiscales, flat_members)),
              LAMBDA checked : Ok([attributes |-> parsed, members |-> flat_members])))

\* from_zarr: guess.attributes.get("multiscales", ()) in place of the lookup
DefaultedMultiscales(attributes) ==
    IF ~attributes.has THEN Ok(<<>>) ELSE Ok(attributes.multiscales)

\* from_zarr: guess.attributes["multiscales"], a KeyError re-raised
GuessMultiscales(attributes) ==
    IF ~attributes.has THEN Raise("KeyError", "not-found")
    ELSE Ok(attributes.multiscales)

\* from_zarr: array_path = f"{node.path}/{dataset.path}", node the root
ArrayPath(dataset) == <<Slash>> \o dataset.path

\* from_zarr: one turn of the loop, the two except clauses taken for one another
SwappedDiscover(members, dataset) ==
    LET found == OpenArray(members, ArrayPath(dataset)) IN
    IF found.ok THEN found
    ELSE IF found.err = "ContainsGroupError"
    THEN RaiseAt("ValueError", "lookup:missing-array", ArrayPath(dataset))
    ELSE RaiseAt("ValueError", "lookup:wrong-node-kind", ArrayPath(dataset))

\* from_zarr: one turn of the loop over the datasets, up to the assignment
Discover(members, dataset) ==
    LET found == OpenArray(members, ArrayPath(dataset)) IN
    IF found.ok THEN found
    ELSE IF found.err = "ArrayNotFoundError"
    THEN RaiseAt("ValueError", "lookup:missing-array", ArrayPath(dataset))
    ELSE RaiseAt("ValueError", "lookup:wrong-node-kind", ArrayPath(dataset))

-----------------------------------------------------------------------------
(* Inputs *)

\* a list of n numbers
Vec(n) == [i \in 1..n |-> 1]

\* JSON-like transformation records: the five documented shapes, and a
\* translation record that gives its magnitude in an entry named `path`
RawIdentity == Raw("identity", "none", "str", <<>>, "")
RawVectorScale(n) == Raw("scale", "scale", "list", Vec(n), "")
RawPathScale == Raw("scale", "path", "str", <<>>, "/s")
RawVectorTranslation(n) == Raw("translation", "translation", "list", Vec(n), "")
RawTranslationStr == Raw("translation", "translation", "str", <<>>, "/t")
RawTranslationPath == Raw("translation", "path", "str", <<>>, "/t")

RawRecords(dims) ==
    {RawIdentity, RawPathScale, RawTranslationStr, RawTranslationPath}
        \cup {RawVectorScale(n) : n \in dims}
        \cup {RawVectorTranslation(n) : n \in dims}

\* constructed transformations, Identity(type="identity") among them
Transforms(dims) ==
    {Transform("Identity", "identity", <<>>, ""),
     Transform("PathScale", "scale", <<>>, "/s"),
     Transform("PathTranslation", "translation", <<>>, "/t")}
        \cup {Transform("VectorScale", "scale", Vec(n), "") : n \in dims}
        \cup {Transform("VectorTranslation", "translation", Vec(n), "") : n \in dims}

\* the path "0"
Path0 == <<"0">>

RawDataset(path, ct) == [path |-> path, coordinateTransformations |-> ct]
RawMultiscale(axes, datasets, ct) ==
    [axes |-> axes, datasets |-> datasets, coordinateTransformations |-> ct]

\* a dataset that fits any number of axes
PathOnlyDataset == RawDataset(Path0, <<RawPathScale>>)

AxisNames == <<"x", "y", "z", "t", "c", "u", "v", "w">>
AllAxisTypes == AxisType \cup {"foo", "bar"}

\* the axis list with the given types; axis i is named AxisNames[i], but for
\* dupe > 1 axis `dupe` takes the name of axis 1
AxesOf(types, dupe) ==
    [i \in DOMAIN types |->
        [name |-> IF i = dupe THEN AxisNames[1] ELSE AxisNames[i], type |-> types[i]]]

AxesInputs ==
    {AxesOf(types, dupe) : types \in SeqsOf(AllAxisTypes, 0, MaxAxes), dupe \in {0, 2}}

\* transform sequences in the documented order
OrderedRawSequences(dims) ==
    LET scales == {RawPathScale} \cup {RawVectorScale(n) : n \in dims}
        translations == {RawTranslationStr} \cup {RawVectorTranslation(n) : n \in dims}
    IN  {<<sc>> : sc \in scales} \cup {<<sc, tr>> : sc \in scales, tr \in translations}

\* axis lists with distinct names: 1..MaxDim space axes, after a time axis or not
TimeSpaceAxes ==
    {AxesOf(lead \o [i \in 1..n |-> "space"], 0) : lead \in {<<>>, <<"time">>}, n \in 1..MaxDim}

NoCall == [ok |-> FALSE, val |-> <<>>, err |-> "none", why |-> "pending"]

\* the variables of from_zarr, at rest
GroupIdle ==
    /\ pc = "idle"
    /\ store = <<>>
    /\ attrs = <<>>
    /\ strict = FALSE
    /\ refuses_trailing_slash = FALSE
    /\ multi_meta = <<>>
    /\ cur = <<0, 0>>
    /\ members_tree_flat = <<>>
    /\ opened = <<>>
    /\ result = NoCall

-----------------------------------------------------------------------------
(* Calls of the transform parsers and validators *)

InitTransforms ==
    /\ GroupIdle
    /\ op = "none"
    /\ ret = NoCall
    /\ \/ arg \in [kind : {"record"}, v : RawRecords(1..MaxDim)]
       \/ arg \in [kind : {"records"}, v : SeqsOf(RawRecords(1..MaxDim), 0, MaxTransforms)]
       \/ arg \in [kind : {"transforms"}, v : SeqsOf(Transforms(1..MaxDim), 0, MaxTransforms)]

ParseScaleTransform ==
    /\ op = "none" /\ arg.kind = "record"
    /\ op' = "ScaleTransform"
    /\ ret' = ScaleTransform(arg.v)
    /\ UNCHANGED <<arg, groupVars>>

ParseTranslationTransform ==
    /\ op = "none" /\ arg.kind = "record"
    /\ op' = "TranslationTransform"
    /\ ret' = TranslationTransform(arg.v)
    /\ UNCHANGED <<arg, groupVars>>

ConstructDataset ==
    /\ op = "none" /\ arg.kind = "records"
    /\ op' = "Dataset"
    /\ ret' = Dataset(RawDataset(Path0, arg.v))
    /\ UNCHANGED <<arg, groupVars>>

EnsureScaleTranslation ==
    /\ op = "none" /\ arg.kind = "transforms"
    /\ op' = "_ensure_scale_translation"
    /\ ret' = _ensure_scale_translation(arg.v)
    /\ UNCHANGED <<arg, groupVars>>

EnsureTransformDimensionality ==
    /\ op = "none" /\ arg.kind = "transforms"
    /\ op' = "_ensure_transform_dimensionality"
    /\ ret' = _ensure_transform_dimensionality(arg.v)
    /\ UNCHANGED <<arg, groupVars>>

NextTransforms ==
    \/ ParseScaleTransform
    \/ ParseTranslationTransform
    \/ ConstructDataset
    \/ EnsureScaleTranslation
    \/ EnsureTransformDimensionality

SpecTransforms == InitTransforms /\ [][NextTransforms]_vars

-----------------------------------------------------------------------------
(* Construction of a Multiscale *)

ConstructMultiscale ==
    /\ op = "none" /\ arg.kind = "multiscale"
    /\ op' = "Multiscale"
    /\ ret' = Multiscale(arg.v)
    /\ UNCHANGED <<arg, groupVars>>

NextMultiscale == ConstructMultiscale

\* every axis list, with a dataset that fits any number of axes
InitAxes ==
    /\ GroupIdle
    /\ op = "none"
    /\ ret = NoCall
    /\ arg \in [kind : {"multiscale"},
                v : {RawMultiscale(axes, <<PathOnlyDataset>>, None) : axes \in AxesInputs}]

SpecAxes == InitAxes /\ [][NextMultiscale]_vars

\* (a) any group-level transform list, with a dataset that fits any number of axes;
\* (b) datasets and group-level transforms in the documented order, of any dimensions
InitMultiscale ==
    /\ GroupIdle
    /\ op = "none"
    /\ ret = NoCall
    /\ \/ arg \in [kind : {"multiscale"},
                   v : {RawMultiscale(axes, <<PathOnlyDataset>>, Some(ct)) :
                          axes \in TimeSpaceAxes,
                          ct \in SeqsOf(RawRecords(2..MaxDim), 0, MaxTransforms)}]
       \/ arg \in [kind : {"multiscale"},
                   v : {RawMultiscale(axes, [i \in DOMAIN cts |-> RawDataset(Path0, cts[i])], top) :
                          axes \in TimeSpaceAxes,
                          cts \in SeqsOf(OrderedRawSequences(2..MaxDim), 0, MaxDatasets),
                          top \in {None, Some(<<RawVectorScale(2), RawVectorTranslation(2)>>)}}]

SpecMultiscale == InitMultiscale /\ [][NextMultiscale]_vars

-----------------------------------------------------------------------------
(* Claims about a Multiscale *)

\* the vector-parametrized members of a constructed transform sequence
VectorMembers(transforms) ==
    {transforms[i] : i \in {k \in DOMAIN transforms :
                              transforms[k].cls \in {"VectorScale", "VectorTranslation"}}}

\* the lengths of the number lists given for `scale` of a scale record, or for
\* `translation` of a translation record, in a list of records
RawVectorLengths(records) ==
    {Len(records[i].vec) : i \in {k \in DOMAIN records :
        /\ records[k].tag = "list"
        /\ records[k].type \in {"scale", "translation"}
        /\ records[k].key = records[k].type}}

\* C2: in a constructed Multiscale every vector-parametrized transform of every
\* dataset, and of the group-level coordinateTransformations when present, has
\* as many entries as there are axes; and an input in which a dataset or the
\* group level gives a vector of another length is rejected.
C2_VectorDimsEqualAxes ==
    op = "Multiscale" =>
        /\ ret.ok =>
            /\ \A d \in DOMAIN ret.val.datasets :
                 \A t \in VectorMembers(ret.val.datasets[d].coordinateTransformations) :
                    Len(t.vec) = Len(ret.val.axes)
            /\ ret.val.coordinateTransformations.some =>
                 \A t \in VectorMembers(ret.val.coordinateTransformations.seq) :
                    Len(t.vec) = Len(ret.val.axes)
            /\ Len(ret.val.axes) = Len(arg.v.axes)
        /\ (\/ \E d \in DOMAIN arg.v.datasets :
                  \E n \in RawVectorLengths(arg.v.datasets[d].coordinateTransformations) :
                     n # Len(arg.v.axes)
            \/ /\ arg.v.coordinateTransformations.some
               /\ \E n \in RawVectorLengths(arg.v.coordinateTransformations.seq) :
                     n # Len(arg.v.axes))
           => ~ret.ok /\ ret.err = "ValidationError"

\* a Multiscale of 2 axes was constructed with two datasets and group-level
\* transforms, all vector-parametrized
C2_Witness ==
    /\ op = "Multiscale" /\ ret.ok
    /\ Len(ret.val.axes) = 2
    /\ Len(ret.val.datasets) = 2
    /\ \A d \in DOMAIN ret.val.datasets :
          Cardinality(VectorMembers(ret.val.datasets[d].coordinateTransformations)) = 2
    /\ ret.val.coordinateTransformations.some
    /\ VectorMembers(ret.val.coordinateTransformations.seq) # {}

\* the number of axes of the given type
CountType(axes, t) == Cardinality({i \in DOMAIN axes : axes[i].type = t})

\* C3: a constructed Multiscale has 2 to 5 axes with pairwise distinct names,
\* 2 or 3 space axes which are the last axes of the list, at most one time axis
\* and at most one channel axis; [space, space, time] is rejected and
\* [time, channel, space, space, space] (distinct names) is accepted.
C3_AxisRules ==
    op = "Multiscale" =>
        LET axes == arg.v.axes
            n == Len(axes)
            types == [i \in DOMAIN axes |-> axes[i].type]
            distinct == \A i, j \in DOMAIN axes : i # j => axes[i].name # axes[j].name
        IN
        /\ ret.ok =>
            /\ ret.val.axes = axes
            /\ n \in 2..5
            /\ distinct
            /\ CountType(axes, "space") \in {2, 3}
            /\ \A i \in DOMAIN axes :
                  axes[i].type = "space" <=> i > n - CountType(axes, "space")
            /\ CountType(axes, "time") <= 1
            /\ CountType(axes, "channel") <= 1
        /\ types = <<"space", "space", "time">> => ~ret.ok
        /\ (types = <<"time", "channel", "space", "space", "space">> /\ distinct) => ret.ok

\* a Multiscale with the axes [time, channel, space, space, space] was constructed
C3_Witness ==
    /\ op = "Multiscale" /\ ret.ok
    /\ [i \in DOMAIN ret.val.axes |-> ret.val.axes[i].type]
          = <<"time", "channel", "space", "space", "space">>

\* C4: in a constructed Multiscale at most one axis has a type other than
\* space, time and channel.
C4_AtMostOneCustomAxis ==
    (op = "Multiscale" /\ ret.ok) =>
        Cardinality({i \in DOMAIN ret.val.axes :
                        ret.val.axes[i].type \notin {"space", "time", "channel"}}) <= 1

\* C7: a list of records that Dataset refuses as its coordinateTransformations
\* is refused as the group-level coordinateTransformations of a Multiscale.
C7_GroupLevelRejectsWhatDatasetRejects ==
    (/\ op = "Multiscale"
     /\ arg.v.coordinateTransformations.some
     /\ ~Dataset(RawDataset(Path0, arg.v.coordinateTransformations.seq)).ok)
        => ~ret.ok /\ ret.err = "ValidationError"

\* a Multiscale was refused whose axes and datasets are valid and whose
\* group-level transforms are a translation followed by a scale, of the
\* dimensionality of the axes
C7_Witness ==
    /\ op = "Multiscale" /\ ~ret.ok
    /\ arg.v.coordinateTransformations.some
    /\ arg.v.coordinateTransformations.seq = <<RawVectorTranslation(2), RawVectorScale(2)>>
    /\ Len(arg.v.axes) = 2
    /\ Multiscale(RawMultiscale(arg.v.axes, arg.v.datasets, None)).ok

-----------------------------------------------------------------------------
(* Claims about transform sequences and records *)

\* the documented shape of a transform sequence: one or two members, the first
\* of type scale, the second of type translation
ScaleThenTranslation(ts) ==
    /\ Len(ts) \in {1, 2}
    /\ ts[1].type = "scale"
    /\ Len(ts) = 2 => ts[2].type = "translation"

\* C5: a Dataset is constructed only from 1 or 2 transforms, the first of type
\* scale and the second of type translation, and holds them so; and the
\* validator _ensure_scale_translation accepts exactly such sequences, refusing
\* an empty one, a longer one, a reversed one and one with an Identity with an
\* error.
C5_ScaleThenTranslation ==
    /\ op = "Dataset" =>
        /\ ret.ok => /\ ScaleThenTranslation(arg.v)
                     /\ ScaleThenTranslation(ret.val.coordinateTransformations)
                     /\ Len(ret.val.coordinateTransformations) = Len(arg.v)
                     /\ \A i \in DOMAIN arg.v : arg.v[i].type # "identity"
        /\ ~ret.ok => ret.err = "ValidationError"
    /\ op = "_ensure_scale_translation" =>
        /\ ret.ok <=> ScaleThenTranslation(arg.v)
        /\ ret.ok => ret.val = arg.v
        /\ ~ret.ok => ret.err = "ValueError"
        /\ (\E i \in DOMAIN arg.v : arg.v[i].type = "identity") => ~ret.ok

\* a Dataset was constructed from a scale and a translation
C5_Witness ==
    /\ op = "Dataset" /\ ret.ok
    /\ Len(arg.v) = 2
    /\ ret.val.coordinateTransformations[2].cls = "VectorTranslation"

\* C6: _ensure_transform_dimensionality refuses a sequence exactly when its
\* vector-parametrized members have more than one length; it returns an
\* accepted sequence as it is; a sequence of path-parametrized transforms passes.
C6_DimensionalityCheck ==
    op = "_ensure_transform_dimensionality" =>
        LET lengths == {Len(t.vec) : t \in VectorMembers(arg.v)} IN
        /\ ~ret.ok <=> Cardinality(lengths) > 1
        /\ ~ret.ok => ret.err = "ValueError"
        /\ ret.ok => ret.val = arg.v
        /\ (\A i \in DOMAIN arg.v : arg.v[i].cls \in {"PathScale", "PathTranslation"})
              => ret.ok

\* a scale of 2 numbers followed by a translation of 3 was refused
C6_Witness ==
    /\ op = "_ensure_transform_dimensionality" /\ ~ret.ok
    /\ Len(arg.v) = 2
    /\ arg.v[1].cls = "VectorScale" /\ Len(arg.v[1].vec) = 2
    /\ arg.v[2].cls = "VectorTranslation" /\ Len(arg.v[2].vec) = 3

\* a path scale followed by a vector translation was accepted
C6_WitnessPath ==
    /\ op = "_ensure_transform_dimensionality" /\ ret.ok
    /\ Len(arg.v) = 2
    /\ arg.v[1].cls = "PathScale"
    /\ arg.v[2].cls = "VectorTranslation"

\* C10: the record {type: "translation", path: <string>} parses to a
\* PathTranslation, as {type: "scale", path: <string>} parses to a PathScale.
C10_PathTranslationFromPath ==
    /\ (/\ op = "TranslationTransform"
        /\ arg.v.type = "translation" /\ arg.v.key = "path" /\ arg.v.tag = "str")
          => ret.ok /\ ret.val.cls = "PathTranslation"
    /\ (/\ op = "ScaleTransform"
        /\ arg.v.type = "scale" /\ arg.v.key = "path" /\ arg.v.tag = "str")
          => ret.ok /\ ret.val.cls = "PathScale"

-----------------------------------------------------------------------------
(* Construction of a MultiscaleGroup: directly, and by from_zarr *)

\* the ranks of the arrays of a store
ArrayRanks == {2, 3}
Shape(rank) == [i \in 1..rank |-> 10]

Name0 == <<"0">>
NameA == <<"a">>

\* the members with the given names; a name is left out when its node is Nothing
Members(n0, na) ==
    [n \in {k \in {Name0, NameA} : (IF k = Name0 THEN n0 ELSE na) # Nothing} |->
        IF n = Name0 THEN n0 ELSE na]

\* hierarchies: "0" is nothing, an array or an empty group; "a" is nothing, or
\* a group that holds an array "0" or nothing
StoreInputs ==
    {Members(n0, na) :
        n0 \in {Nothing, GroupNode(<<>>)} \cup {ArrayNode(Shape(r)) : r \in ArrayRanks},
        na \in {Nothing, GroupNode(<<>>)}
                 \cup {GroupNode(Members(ArrayNode(Shape(r)), Nothing)) : r \in ArrayRanks}}

\* dataset paths: "0", "a", "/0", "a/0", "0/"
PathInputs ==
    {<<"0">>, <<"a">>, <<Slash, "0">>, <<"a", Slash, "0">>, <<"0", Slash>>}

SpaceAxes(n) == AxesOf([i \in 1..n |-> "space"], 0)

\* a multiscale of `rank` space axes with datasets at the given paths
GroupMultiscale(rank, paths) ==
    RawMultiscale(SpaceAxes(rank),
                  [i \in DOMAIN paths |-> RawDataset(paths[i], <<RawPathScale>>)], None)

\* attributes: without `multiscales`; with an empty or an invalid one; with one
\* multiscale of 1..MaxDatasets datasets, followed or not by one of one dataset
AttrsInputs ==
    LET first == {GroupMultiscale(r, paths) :
                    r \in ArrayRanks, paths \in SeqsOf(PathInputs, 1, MaxDatasets)}
        second == {GroupMultiscale(r, <<path>>) : r \in ArrayRanks, path \in PathInputs}
    IN  {[has |-> FALSE, multiscales |-> <<>>],
         [has |-> TRUE, multiscales |-> <<>>],
         [has |-> TRUE, multiscales |-> <<GroupMultiscale(1, <<Name0>>)>>]}
          \cup {[has |-> TRUE, multiscales |-> <<m>>] : m \in first}
          \cup {[has |-> TRUE, multiscales |-> <<m, n>>] : m \in first, n \in second}

Init ==
    /\ op = "none"
    /\ arg = <<>>
    /\ ret = NoCall
    /\ pc = "start"
    /\ store \in StoreInputs
    /\ attrs \in AttrsInputs
    /\ strict \in BOOLEAN
    /\ refuses_trailing_slash \in BOOLEAN
    /\ multi_meta = <<>>
    /\ cur = <<0, 0>>
    /\ members_tree_flat = <<>>
    /\ opened = <<>>
    /\ result = NoCall

\* MultiscaleGroup(attributes=attrs, members=store)
ConstructDirect ==
    /\ pc = "start"
    /\ op' = "MultiscaleGroup"
    /\ result' = MultiscaleGroup(attrs, ToFlat(store))
    /\ pc' = IF result'.ok THEN "done" ELSE "failed"
    /\ UNCHANGED <<arg, ret, store, attrs, strict, refuses_trailing_slash, multi_meta, cur, members_tree_flat, opened>>

\* guess = GroupSpec.from_zarr(node, depth=0)
FromZarrGuess ==
    /\ pc = "start"
    /\ op' = "from_zarr"
    /\ pc' = "guess"
    /\ UNCHANGED <<arg, ret, store, attrs, strict, refuses_trailing_slash, multi_meta, cur, members_tree_flat,
                   opened, result>>

\* multi_meta_maybe = guess.attributes["multiscales"]
FromZarrMultiscales ==
    /\ pc = "guess"
    /\ IF GuessMultiscales(attrs).ok
       THEN pc' = "parse" /\ UNCHANGED result
       ELSE pc' = "failed" /\ result' = GuessMultiscales(attrs)
    /\ UNCHANGED <<op, arg, ret, store, attrs, strict, refuses_trailing_slash, multi_meta, cur, members_tree_flat,
                   opened>>

\* multi_meta = MultiscaleGroupAttrs(multiscales=multi_meta_maybe)
FromZarrParse ==
    /\ pc = "parse"
    /\ \E parsed \in {MultiscaleGroupAttrs(GuessMultiscales(attrs).val)} :
       IF parsed.ok
       THEN /\ multi_meta' = parsed.val
            /\ cur' = <<1, 1>>
            /\ pc' = "discover"
            /\ UNCHANGED result
       ELSE /\ pc' = "failed"
            /\ result' = parsed
            /\ UNCHANGED <<multi_meta, cur>>
    /\ UNCHANGED <<op, arg, ret, store, attrs, strict, refuses_trailing_slash, members_tree_flat, opened>>

\* the position after cur in the loops over multiscales and datasets
NextPosition(multiscales, pos) ==
    IF pos[2] < Len(multiscales[pos[1]].datasets) THEN <<pos[1], pos[2] + 1>>
    ELSE <<pos[1] + 1, 1>>

\* one turn of the loop over the datasets of multi_meta
FromZarrDiscover ==
    /\ pc = "discover"
    /\ LET dataset == multi_meta.multiscales[cur[1]].datasets[cur[2]]
           found == Discover(store, dataset)
           next == NextPosition(multi_meta.multiscales, cur)
       IN  /\ opened' = Append(opened, ArrayPath(dataset))
           /\ IF found.ok
              THEN /\ members_tree_flat' =
                        ((<<Slash>> \o dataset.path) :> found.val) @@ members_tree_flat
                   /\ cur' = next
                   /\ pc' = IF next[1] > Len(multi_meta.multiscales)
                            THEN "assemble" ELSE "discover"
                   /\ UNCHANGED result
              ELSE /\ pc' = "failed"
                   /\ result' = found
                   /\ UNCHANGED <<members_tree_flat, cur>>
    /\ UNCHANGED <<op, arg, ret, store, attrs, strict, refuses_trailing_slash, multi_meta>>

\* members_normalized = GroupSpec.from_flat(members_tree_flat), and
\* cls(**guess_inferred_members.model_dump())
FromZarrReturn ==
    /\ pc = "assemble"
    /\ result' = Then(FromFlat(members_tree_flat, strict, refuses_trailing_slash),
                      LAMBDA flat : MultiscaleGroup(attrs, flat))
    /\ pc' = IF result'.ok THEN "done" ELSE "failed"
    /\ UNCHANGED <<op, arg, ret, store, attrs, strict, refuses_trailing_slash, multi_meta, cur, members_tree_flat,
                   opened>>

Next ==
    \/ ConstructDirect
    \/ FromZarrGuess
    \/ FromZarrMultiscales
    \/ FromZarrParse
    \/ FromZarrDiscover
    \/ FromZarrReturn

Spec == Init /\ [][Next]_vars

-----------------------------------------------------------------------------
(* Claims about a MultiscaleGroup *)

\* what a dataset path refers to in a flat hierarchy: the node at "/" followed
\* by the path without its leading slashes; "nothing" without such a key
Referred(flat, path) ==
    LET key == <<"/">> \o Lstrip(path) IN
    IF key \in DOMAIN flat THEN flat[key] ELSE [kind |-> "nothing", shape |-> <<>>]

\* C1: in a constructed MultiscaleGroup, built directly or by from_zarr, every
\* dataset path of every multiscale refers in the flattened members to an array
\* with as many dimensions as the multiscale has axes; and a direct construction
\* whose metadata is valid fails with an error and yields no group when a path
\* refers to nothing, to a group, or to an array of another rank.
C1_ArraysCompatible ==
    /\ (pc = "done" /\ result.ok) =>
         /\ op \in {"MultiscaleGroup", "from_zarr"}
         /\ \A i \in DOMAIN result.val.attributes.multiscales :
              LET m == result.val.attributes.multiscales[i] IN
              \A j \in DOMAIN m.datasets :
                 /\ Referred(result.val.members, m.datasets[j].path).kind = "array"
                 /\ Len(Referred(result.val.members, m.datasets[j].path).shape) = Len(m.axes)
    /\ (/\ op = "MultiscaleGroup"
        /\ attrs.has
        /\ MultiscaleGroupAttrs(attrs.multiscales).ok
        /\ \E i \in DOMAIN attrs.multiscales :
             \E j \in DOMAIN attrs.multiscales[i].datasets :
                LET node == Referred(ToFlat(store), attrs.multiscales[i].datasets[j].path) IN
                \/ node.kind # "array"
                \/ Len(node.shape) # Len(attrs.multiscales[i].axes))
         => pc = "failed" /\ ~result.ok /\ result.err = "ValidationError"
    /\ pc = "done" <=> result.ok

\* from_zarr returned a group of two multiscales, one of them with the dataset
\* path "a/0"
C1_Witness ==
    /\ op = "from_zarr" /\ pc = "done" /\ result.ok
    /\ Len(result.val.attributes.multiscales) = 2
    /\ \E i \in DOMAIN result.val.attributes.multiscales :
          result.val.attributes.multiscales[i].datasets[1].path = <<"a", "/", "0">>

\* a group of two datasets was constructed directly
C1_WitnessDirect ==
    /\ op = "MultiscaleGroup" /\ pc = "done" /\ result.ok
    /\ Len(result.val.attributes.multiscales[1].datasets) = 2

\* C8: from_zarr on a node whose attributes have no `multiscales` fails with a
\* KeyError, which no malformed metadata gives, and opens no array.
C8_MissingMultiscalesKey ==
    /\ (op = "from_zarr" /\ ~attrs.has) =>
         /\ opened = <<>>
         /\ pc \in {"guess", "failed"}
         /\ pc = "failed" => (~result.ok /\ result.err = "KeyError")
    /\ (pc = "failed" /\ attrs.has) => result.err \in {"ValidationError", "ValueError"}

\* from_zarr failed on a node without `multiscales` that holds an array "0"
C8_Witness ==
    /\ op = "from_zarr" /\ ~attrs.has /\ pc = "failed"
    /\ <<"0">> \in DOMAIN store /\ store[<<"0">>].kind = "array"

\* the array paths of the metadata, in the order of the multiscales and datasets
RECURSIVE ArrayPathsOf(_)
ArrayPathsOf(multiscales) ==
    IF multiscales = <<>> THEN <<>>
    ELSE [j \in DOMAIN Head(multiscales).datasets |->
             <<"/">> \o Head(multiscales).datasets[j].path]
         \o ArrayPathsOf(Tail(multiscales))

\* what the store holds at an array path
Held(path) == Resolve(store, NormalizedSegments(path)).kind

\* C9 (state): the paths opened so far are the first array paths of the
\* metadata, in order and once each, and none is opened before the metadata is
\* parsed; every path but the last opened holds an array; when the last holds
\* nothing from_zarr has failed with the missing-array error that names it, when
\* it holds a group with the wrong-node-kind error; a group is returned only
\* after every path was opened.
C9_Lookups ==
    op = "from_zarr" =>
        LET expected == IF attrs.has THEN ArrayPathsOf(attrs.multiscales) ELSE <<>>
            n == Len(opened) IN
        /\ n <= Len(expected)
        /\ opened = SubSeq(expected, 1, n)
        /\ n > 0 => pc \in {"discover", "assemble", "done", "failed"}
        /\ pc \in {"assemble", "done"} => n = Len(expected)
        /\ \A k \in 1..(n - 1) : Held(opened[k]) = "array"
        /\ (n > 0 /\ Held(opened[n]) = "nothing") =>
              /\ pc = "failed"
              /\ result = [ok |-> FALSE, val |-> opened[n], err |-> "ValueError",
                           why |-> "lookup:missing-array"]
        /\ (n > 0 /\ Held(opened[n]) = "group") =>
              /\ pc = "failed"
              /\ result = [ok |-> FALSE, val |-> opened[n], err |-> "ValueError",
                           why |-> "lookup:wrong-node-kind"]
        /\ pc = "failed" => ~result.ok

\* C9 (step): one path is opened at a time, only between the parsing of the
\* metadata and the final validation, and nothing happens after a failure.
C9_Step ==
    /\ pc \notin {"failed", "done"}
    /\ \/ opened' = opened
       \/ /\ pc = "discover"
          /\ Len(opened') = Len(opened) + 1
          /\ SubSeq(opened', 1, Len(opened)) = opened

\* C9: from_zarr opens the dataset paths one at a time and in order, after the
\* attributes are read and before the final validation; the first path that
\* holds nothing ends it with a missing-array error naming the path, the first
\* that holds a group with a wrong-node-kind error; then nothing more is
\* opened or retried, and no group is returned.
C9_OrderedLookupsFailFast == [](C9_Lookups) /\ [][C9_Step]_vars

\* from_zarr failed on the second of three paths, which holds a group
C9_Witness ==
    /\ op = "from_zarr" /\ pc = "failed"
    /\ attrs.has /\ Len(ArrayPathsOf(attrs.multiscales)) = 3
    /\ Len(opened) = 2
    /\ Held(opened[2]) = "group"
    /\ result.why = "lookup:wrong-node-kind"

\* the store holds, at every array path of the metadata, an array with as many
\* dimensions as its multiscale has axes
AllDiscoverable(multiscales) ==
    \A i \in DOMAIN multiscales :
       \A j \in DOMAIN multiscales[i].datasets :
          LET node == Resolve(store, NormalizedSegments(
                          <<"/">> \o multiscales[i].datasets[j].path)) IN
          /\ node.kind = "array"
          /\ Len(node.shape) = Len(multiscales[i].axes)

\* the keys the final validation looks up for the datasets of the metadata
LookupKeys(multiscales) ==
    UNION {{<<"/">> \o Lstrip(multiscales[i].datasets[j].path) :
                j \in DOMAIN multiscales[i].datasets} : i \in DOMAIN multiscales}

\* C11: when the metadata of the node parses and every dataset path, one
\* written with a leading slash included, is found by the lookups of from_zarr
\* to be an array with as many dimensions as its multiscale has axes, then
\* once the lookups are over the keys under which the arrays were recorded
\* are the keys the final validation looks up, and from_zarr ends by returning
\* a MultiscaleGroup, never with an error.
C11_DiscoveryAgreesWithValidation ==
    (/\ op = "from_zarr"
     /\ attrs.has
     /\ MultiscaleGroupAttrs(attrs.multiscales).ok
     /\ AllDiscoverable(attrs.multiscales)
     /\ pc \in {"assemble", "done", "failed"})
      => /\ DOMAIN members_tree_flat = LookupKeys(attrs.multiscales)
         /\ pc \in {"done", "failed"} => (pc = "done" /\ result.ok)

=============================================================================
